---- MODULE Spec2Model ----
(***************************************************************************)
(* Customer-service agent backend: the /invocations handlers               *)
(* (conversation_router.py, server.py, main.py), the orchestration         *)
(* pipeline ConversationService.send_message and the two LangGraph agent   *)
(* adapters.  One HTTP request is one process r; every action is the code  *)
(* a request runs between two awaits.                                      *)
(***************************************************************************)
EXTENDS Integers, Sequences, FiniteSets, TLC

(* ---------- bounds ---------- *)
MaxRequests == 2          \* send_message calls made one after the other
MaxHttpRequests == 1      \* /invocations requests, over all handlers and bodies
MaxConversations == 1     \* conversations created in one behaviour
MaxTranscript == 3        \* messages of a transcript handed to the extraction
MaxScored == 2            \* scores the telemetry sink records in one behaviour
MaxChunks == 2            \* chunks agent.astream emits in one stream
MaxChat == 2              \* messages the frontend displays

Reqs == {1, 2}            \* request tasks that can be in flight together

(* ---------- values ---------- *)
None == "None"            \* Python None where a string is expected
NoId == -1                \* conversation_id = None
UnknownId == -2           \* a well-formed UUID that is in no store
MalformedId == -3         \* a conversation_id string that UUID() rejects

Handlers == {"router", "server", "main"}
Prompts == {None, "hi"}
Scores == {0, 5, 6, 10}   \* feedback scores in tenths: 0.0, 0.5, 0.6 and 1.0
NoFeedback ==
    [given |-> FALSE, score |-> 0, session_id |-> None, run_id |-> None, comment |-> None]
Feedback(score, session_id, run_id, comment) ==
    [given |-> TRUE, score |-> score, session_id |-> session_id, run_id |-> run_id,
     comment |-> comment]
Feedbacks == {NoFeedback} \cup {Feedback(s, "s1", "m1", None) : s \in Scores}

ALLOWED == "ALLOWED"
BLOCKED == "BLOCKED"
CUSTOMER_SERVICE == "customer_service"

(* Python truthiness of an optional string *)
Falsy(x) == x = None \/ x = ""

(* ",".join(list) *)
RECURSIVE Join(_)
Join(s) ==
    IF Len(s) = 0 THEN ""
    ELSE IF Len(s) = 1 THEN s[1]
    ELSE s[1] \o "," \o Join(Tail(s))

(* list(set(xs)): every name once, in an order the runtime chooses *)
Range(s) == {s[i] : i \in 1..Len(s)}
Orderings(S) ==
    {s \in [1..Cardinality(S) -> S] : \A i, j \in 1..Cardinality(S) : i # j => s[i] # s[j]}


(* ---------- domain values ---------- *)
(* a metadata dict is the set of its <<key, value>> items *)
HasKey(m, k) == \E p \in m : p[1] = k

(* Message.create_user_message(content) *)
create_user_message(content) ==
    [role |-> "user", content |-> content, metadata |-> {}]

(* Message.create_assistant_message(content, metadata) *)
create_assistant_message(content, metadata) ==
    [role |-> "assistant", content |-> content, metadata |-> metadata]

(* what GuardrailService.check_input / check_output can return *)
GuardrailResults ==
    { [assessment |-> ALLOWED, message |-> None, blocked_categories |-> <<>>],
      [assessment |-> BLOCKED, message |-> "blocked", blocked_categories |-> <<"hate", "violence">>] }
NoResult == [assessment |-> None, message |-> None, blocked_categories |-> <<>>]

(* framework messages of a transcript *)
AIMessage(content, tool_calls) ==
    [type |-> "AIMessage", content |-> content, tool_calls |-> tool_calls]
HumanMessage(content) ==
    [type |-> "HumanMessage", content |-> content, tool_calls |-> <<>>]
ToolMessage(content) ==
    [type |-> "ToolMessage", content |-> content, tool_calls |-> <<>>]

(* what agent.ainvoke appends to the messages it was given *)
Emitted ==
    { << AIMessage("raw", <<>>) >>,
      << AIMessage("", <<"kb", "web", "kb">>), ToolMessage("{}"), AIMessage("raw", <<>>) >> }


(* the messages a transcript is made of *)
TranscriptMessages ==
    { HumanMessage("hi"), AIMessage("", <<"kb">>), AIMessage("", <<"web", "kb">>),
      ToolMessage("{}"), AIMessage("raw", <<>>) }
Transcripts == UNION { [1..n -> TranscriptMessages] : n \in 1..MaxTranscript }


(* ---------- agent adapters ---------- *)
(* fields of the frozen dataclasses of domain/services/agent_service.py *)
AgentRequestFields == {"messages", "agent_type", "user_id", "model", "session_id", "trace_id"}
AgentResponseFields == {"content", "agent_type", "tools_used", "metadata"}

AgentRequest(messages, user_id, model, session_id) ==
    [messages |-> messages, agent_type |-> CUSTOMER_SERVICE, user_id |-> user_id,
     model |-> model, session_id |-> session_id, trace_id |-> None]

(* an AgentResponse; observed is what the adapter saw on the way (input check,
   the framework's last message, output check), kept for the properties *)
AgentResponse(content, tools_used, metadata, observed) ==
    [err |-> "none", content |-> content, agent_type |-> CUSTOMER_SERVICE,
     tools_used |-> tools_used, metadata |-> metadata, observed |-> observed]
Raised(exc) ==
    [err |-> exc, content |-> None, agent_type |-> CUSTOMER_SERVICE,
     tools_used |-> <<>>, metadata |-> {}, observed |-> <<NoResult, None, NoResult>>]
NoResponse == Raised("unset")

(* domain messages to framework messages, in order: a user message becomes
   a HumanMessage, an assistant message an AIMessage, any other role is left out *)
RECURSIVE lc_messages(_)
lc_messages(messages) ==
    IF Len(messages) = 0 THEN <<>>
    ELSE (IF Head(messages).role = "user" THEN <<HumanMessage(Head(messages).content)>>
          ELSE IF Head(messages).role = "assistant"
          THEN <<AIMessage(Head(messages).content, <<>>)>>
          ELSE <<>>)
         \o lc_messages(Tail(messages))

(* the names of the tool_calls of the AI messages, in transcript order *)
RECURSIVE tool_call_names(_)
tool_call_names(msgs) ==
    IF Len(msgs) = 0 THEN <<>>
    ELSE (IF Head(msgs).type = "AIMessage" THEN Head(msgs).tool_calls ELSE <<>>)
         \o tool_call_names(Tail(msgs))

(* faulty variant: the names are returned as collected, duplicates included *)
tools_used_of_with_duplicates(msgs) == {tool_call_names(msgs)}

(* the tool-usage extraction of both adapters: tools_used = list(set(tools_used)) *)
tools_used_of(msgs) == Orderings(Range(tool_call_names(msgs)))

message_types(msgs) == [i \in 1..Len(msgs) |-> msgs[i].type]

(* the results of the adapter's own input check: it runs when the adapter has
   a guardrail service and the request holds a user message *)
adapter_input_results(request, guard) ==
    IF guard /\ \E i \in 1..Len(request.messages) : request.messages[i].role = "user"
    THEN GuardrailResults ELSE {NoResult}
adapter_output_results(guard) == IF guard THEN GuardrailResults ELSE {NoResult}

blocked_metadata(result) ==
    {<<"blocked_categories", Join(result.blocked_categories)>>}

(* LangGraphAgentService.process_request of src/infrastructure/adapters: the
   set of its outcomes over the collaborators' answers *)
process_request(request, guard, langfuse) ==
    LET ins == adapter_input_results(request, guard)
        passing == {ir \in ins : ir.assessment # BLOCKED}
        trace_id == IF langfuse THEN request.user_id \o "_" \o request.session_id ELSE None
        finish(ir, em, tools_used, orr) ==
            LET response == lc_messages(request.messages) \o em
                last_message == response[Len(response)]
            IN  IF orr.assessment = BLOCKED
                THEN AgentResponse(orr.message, tools_used, blocked_metadata(orr),
                                   <<ir, last_message.content, orr>>)
                ELSE AgentResponse(last_message.content, tools_used,
                        { <<"model", request.model>>,
                          <<"agent_type", request.agent_type>>,
                          <<"trace_id", trace_id>>,
                          <<"debug_message_count", ToString(Len(response))>>,
                          <<"debug_message_types", Join(message_types(response))>>,
                          <<"debug_tools_found", IF Len(tools_used) > 0 THEN "True" ELSE "False">> },
                        <<ir, last_message.content, orr>>)
    IN  { AgentResponse(ir.message, <<>>, blocked_metadata(ir), <<ir, None, NoResult>>) :
            ir \in {x \in ins : x.assessment = BLOCKED} }
        \cup
        UNION { UNION { UNION { { finish(ir, em, tu, orr) : orr \in adapter_output_results(guard) } :
                    tu \in tools_used_of(lc_messages(request.messages) \o em) } :
                em \in Emitted } :
            ir \in passing }
        \cup
        { Raised("Exception") : ir \in ins }

(* LangGraphAgentService.process_request of cx_agent_backend, up to the first
   statement that cannot succeed with the dataclasses above *)
process_request_cx(request, guard, stm_memory_id) ==
    LET ins == adapter_input_results(request, guard)
        blocked == {ir \in ins : ir.assessment = BLOCKED}
        passing == {ir \in ins : ir.assessment # BLOCKED}
    IN  { IF "trace_id" \in AgentResponseFields
          THEN AgentResponse(ir.message, <<>>, blocked_metadata(ir), <<ir, None, NoResult>>)
          ELSE Raised("TypeError") : ir \in blocked }
        \cup
        { IF ~stm_memory_id THEN Raised("ValueError")
          ELSE IF "jwt_token" \notin AgentRequestFields THEN Raised("AttributeError")
          ELSE Raised("Exception") : ir \in passing }


(* ---------- tool payloads ---------- *)
(* a JSON value as the harvest reads it: its type, what iterating it gives
   (the elements of a list, the characters of a string) and its text *)
JAbsent == [type |-> "absent", items |-> <<>>, text |-> None]
JList(items) == [type |-> "list", items |-> items, text |-> None]
JString(text, chars) == [type |-> "string", items |-> chars, text |-> text]
JNumber == [type |-> "number", items |-> <<>>, text |-> None]
JNull == [type |-> "null", items |-> <<>>, text |-> None]

(* what json.loads returns: a dict with its citations and knowledge_base_id
   entries, another JSON value, or the exception JSONDecodeError *)
JObject(citations, knowledge_base_id) ==
    [kind |-> "object", citations |-> citations, knowledge_base_id |-> knowledge_base_id]
JOther(kind) == [kind |-> kind, citations |-> JAbsent, knowledge_base_id |-> JAbsent]

json_loads(content) ==
    CASE content = "{\"citations\": [\"c1\", \"c2\"], \"knowledge_base_id\": \"kb1\"}" ->
            JObject(JList(<<"c1", "c2">>), JString("kb1", <<"k", "b", "1">>))
      [] content = "{\"knowledge_base_id\": \"kb2\"}" ->
            JObject(JAbsent, JString("kb2", <<"k", "b", "2">>))
      [] content = "{\"citations\": [\"c3\"]}" -> JObject(JList(<<"c3">>), JAbsent)
      [] content = "{}" -> JObject(JAbsent, JAbsent)
      [] content = "{\"citations\": \"ab\"}" -> JObject(JString("ab", <<"a", "b">>), JAbsent)
      [] content = "{\"citations\": 5, \"knowledge_base_id\": \"kb3\"}" ->
            JObject(JNumber, JString("kb3", <<"k", "b", "3">>))
      [] content = "{\"knowledge_base_id\": null}" -> JObject(JAbsent, JNull)
      [] content = "[1]" -> JOther("array")
      [] content = "5" -> JOther("number")
      [] content = "null" -> JOther("null")
      [] OTHER -> JOther("JSONDecodeError")

(* the payloads a tool message may carry: as the tools write them, of another
   shape, or no JSON at all *)
WellFormedPayloads ==
    { "{\"citations\": [\"c1\", \"c2\"], \"knowledge_base_id\": \"kb1\"}",
      "{\"knowledge_base_id\": \"kb2\"}", "{\"citations\": [\"c3\"]}" }
MalformedPayloads ==
    { "not json", "5", "[1]", "{\"citations\": \"ab\"}",
      "{\"citations\": 5, \"knowledge_base_id\": \"kb3\"}",
      "{\"knowledge_base_id\": null}" }

(* ---------- the harvest of the cx_agent_backend adapter ---------- *)
(* citations, knowledge_base_id and the exception, if any, that left the loop *)
Harvest(citations, knowledge_base_id) ==
    [err |-> "none", citations |-> citations, knowledge_base_id |-> knowledge_base_id]

(* the try body, lines 284-292, on one parsed payload: the harvest so far
   updated, or the exception the body raises.  "in" on a number or on None and
   extend with a number or None raise TypeError; "in" on a list finds nothing;
   extend with a string appends its characters *)
TryResult(exc, h) == [exc |-> exc, harvest |-> h]
harvest_payload(v, h) ==
    IF v.kind = "JSONDecodeError" THEN TryResult("JSONDecodeError", h)
    ELSE IF v.kind \in {"number", "null"} THEN TryResult("TypeError", h)
    ELSE IF v.kind = "array" THEN TryResult("none", h)
    ELSE IF v.citations.type \in {"number", "null"} THEN TryResult("TypeError", h)
    ELSE TryResult("none",
            Harvest(h.citations \o v.citations.items,
                    IF v.knowledge_base_id.type = "absent" THEN h.knowledge_base_id
                    ELSE v.knowledge_base_id.text))

(* faulty variant: only a payload that is no JSON is passed over *)
harvest_except_decode_only(exc) == exc = "JSONDecodeError"

(* line 293: except (json.JSONDecodeError, TypeError, AttributeError): pass *)
harvest_except(exc) == exc \in {"JSONDecodeError", "TypeError", "AttributeError"}

(* lines 280-294 for one message of the transcript *)
harvest_message(msg, h) ==
    IF msg.type # "ToolMessage" THEN h
    ELSE LET try == harvest_payload(json_loads(msg.content), h)
         IN  IF try.exc = "none" THEN try.harvest
             ELSE IF harvest_except(try.exc) THEN h
             ELSE [h EXCEPT !.err = try.exc]

(* the loop over response["messages"], lines 275-294 *)
RECURSIVE harvest(_, _)
harvest(msgs, h) ==
    IF Len(msgs) = 0 \/ h.err # "none" THEN h
    ELSE harvest(Tail(msgs), harvest_message(Head(msgs), h))

(* lines 315-324: citations and knowledge_base_id enter the metadata when truthy *)
cx_metadata(model, h) ==
    { <<"model", model>>, <<"agent_type", CUSTOMER_SERVICE>> }
    \cup (IF h.citations # <<>> THEN {<<"citations", Join(h.citations)>>} ELSE {})
    \cup (IF ~Falsy(h.knowledge_base_id)
          THEN {<<"knowledge_base_id", h.knowledge_base_id>>} ELSE {})

(* lines 325-331: the response, built with the keyword trace_id *)
cx_response(msgs, tools_used, h) ==
    IF h.err # "none" THEN Raised(h.err)
    ELSE IF "trace_id" \notin AgentResponseFields THEN Raised("TypeError")
    ELSE AgentResponse(msgs[Len(msgs)].content, tools_used, cx_metadata("model", h),
                       <<NoResult, msgs[Len(msgs)].content, NoResult>>)

NotHarvested ==
    [harvest |-> [err |-> "not run", citations |-> <<>>, knowledge_base_id |-> None],
     response |-> NoResponse]


(* ---------- state ---------- *)
VARIABLES
    store,              \* conversation repository: id -> persisted conversation
    nextId,             \* the next fresh conversation id (uuid4)
    served,             \* /invocations requests received
    guardrail_service,  \* ConversationService._guardrail_service is set
    adapter_guardrail,  \* LangGraphAgentService._guardrail_service is set
    langfuse_enabled,   \* langfuse_config["enabled"]
    pc,                 \* where each request task stands
    req,                \* the request it serves
    conversation,       \* send_message's local conversation object
    snapshot,           \* the conversation as get_by_id returned it
    checks,             \* <<input check result, output check result>> of send_message
    agent_response,     \* what process_request returned
    result,             \* what send_message returned: message and tools_used
    http,               \* the HTTP status answered (0: none yet)
    body,               \* the response body
    error,              \* <<exception, where it was raised>> when the request failed
    log,                \* the collaborator calls the request made, in order
    scored,             \* the score_trace calls the telemetry sink has received
    transcript,         \* response["messages"] of one agent invocation
    extracted,          \* the tools_used list extracted from the transcript
    harvested,          \* what the cx_agent_backend adapter harvests and returns
    stream_of,          \* the adapter whose stream_response is iterated
    stream_pc,          \* where that iteration stands
    chunks,             \* the chunks agent.astream emits
    cursor,             \* how many of them the loop has consumed
    yielded,            \* what stream_response has yielded, in order
    chat,               \* the messages the frontend displays
    session_state,      \* st.session_state: feedback_given_<message id> -> flag
    controls,           \* the message ids whose feedback buttons the last run rendered
    forms,              \* the message ids whose comment form the last run rendered
    submissions         \* the submit_feedback calls made, with their result

(* the state of the adapters' extraction and streaming, outside a request *)
frontend == <<chat, session_state, controls, forms, submissions>>
adapters_io == <<transcript, extracted, harvested, stream_of, stream_pc, chunks, cursor, yielded,
                 frontend>>

vars == <<store, nextId, served, guardrail_service, adapter_guardrail,
          langfuse_enabled, pc, req, conversation, snapshot, checks,
          agent_response, result, http, body, error, log, scored, adapters_io>>

service == <<store, nextId, served, guardrail_service, adapter_guardrail,
             langfuse_enabled, pc, req, conversation, snapshot, checks,
             agent_response, result, http, body, error, log>>

config == <<guardrail_service, adapter_guardrail, langfuse_enabled>>

NoRequest ==
    [handler |-> None, prompt |-> None, feedback |-> NoFeedback,
     conversation_id |-> NoId, model |-> None, user_id |-> None]
NoMessage == [role |-> None, content |-> None, metadata |-> {}]
NoReturn == [message |-> NoMessage, tools_used |-> <<>>]
NoBody == [keys |-> {}, message |-> None, tools_used |-> <<>>, metadata |-> {}]
NoError == <<"none", "none">>
NoConversation == [user_id |-> None, messages |-> <<>>]

NotExtracted == <<"not extracted">>

InitService ==
    /\ store = <<>>
    /\ nextId = 1
    /\ served = 0
    /\ guardrail_service \in BOOLEAN
    /\ adapter_guardrail \in BOOLEAN
    /\ langfuse_enabled \in BOOLEAN
    /\ pc = [r \in Reqs |-> "idle"]
    /\ req = [r \in Reqs |-> NoRequest]
    /\ conversation = [r \in Reqs |-> NoConversation]
    /\ snapshot = [r \in Reqs |-> NoConversation]
    /\ checks = [r \in Reqs |-> <<NoResult, NoResult>>]
    /\ agent_response = [r \in Reqs |-> NoResponse]
    /\ result = [r \in Reqs |-> NoReturn]
    /\ http = [r \in Reqs |-> 0]
    /\ body = [r \in Reqs |-> NoBody]
    /\ error = [r \in Reqs |-> NoError]
    /\ log = [r \in Reqs |-> <<>>]
    /\ scored = {}

InitExtraction ==
    /\ transcript = <<>>
    /\ extracted = NotExtracted
    /\ harvested = NotHarvested

InitStream ==
    /\ stream_of = None
    /\ stream_pc = "idle"
    /\ chunks = <<>>
    /\ cursor = 0
    /\ yielded = <<>>

InitFrontend ==
    /\ chat = <<>>
    /\ session_state = <<>>
    /\ controls = {}
    /\ forms = {}
    /\ submissions = {}

Init == InitService /\ InitExtraction /\ InitStream /\ InitFrontend

(* ---------- conversation repository ---------- *)
(* ConversationRepository.get_by_id: a copy of the persisted conversation *)
get_by_id(id) == store[id]
Stored(id) == id \in DOMAIN store
(* ConversationRepository.save: the persisted list is replaced by the saved one *)
save(id, conv) ==
    IF Stored(id) THEN [store EXCEPT ![id] = conv]
    ELSE [i \in DOMAIN store \cup {id} |-> IF i = id THEN conv ELSE store[i]]
(* Conversation.add_message *)
add_message(conv, message) == [conv EXCEPT !.messages = Append(@, message)]

(* ---------- HTTP boundary ---------- *)
(* faulty variant: every exception is answered with 500 *)
router_except_always_500(exc) == 500

(* conversation_router.send_message, the except clauses *)
router_except(exc) == IF exc = "ValueError" THEN 404 ELSE 500
(* server.invocations, the except clauses *)
server_except(exc) == IF exc = "ValueError" THEN 404 ELSE 500

(* conversation_router.submit_feedback, the except clause *)
submit_feedback_except(exc) == 500

UsesRouter(r) == req[r].handler \in {"router", "main"}
handler_except(r, exc) ==
    IF UsesRouter(r) THEN router_except(exc)
    ELSE IF req[r].handler = "feedback" THEN submit_feedback_except(exc)
    ELSE server_except(exc)

(* the request ends with an HTTP error status *)
Fail(r, exc, origin, status) ==
    /\ http' = [http EXCEPT ![r] = status]
    /\ error' = [error EXCEPT ![r] = <<exc, origin>>]
    /\ pc' = [pc EXCEPT ![r] = "done"]
(* an exception raised inside the handler's try block *)
Raise(r, exc, origin) == Fail(r, exc, origin, handler_except(r, exc))


(* the response bodies; keys are the keys the JSON object carries *)
(* faulty variant: the response leaves the tools list empty *)
RouterBody_without_tools(message, tools_used) ==
    [keys |-> {"response", "tools_used"}, message |-> message,
     tools_used |-> <<>>, metadata |-> {}]

(* router send_message lines 133-134: SendMessageResponse *)
RouterBody(message, tools_used) ==
    [keys |-> {"response", "tools_used"}, message |-> message,
     tools_used |-> tools_used, metadata |-> {}]
MainBody(message) ==
    [keys |-> {"message", "timestamp", "model"}, message |-> message,
     tools_used |-> <<>>, metadata |-> {}]
ServerBody(message, metadata) ==
    [keys |-> {"message", "timestamp", "model"} \cup (IF metadata # {} THEN {"metadata"} ELSE {}),
     message |-> message, tools_used |-> <<>>, metadata |-> metadata]
ServerAck ==
    [keys |-> {"message", "timestamp"}, message |-> "Feedback received",
     tools_used |-> <<>>, metadata |-> {}]

(* submit_feedback lines 173-176 *)
FeedbackBody ==
    [keys |-> {}, message |-> "FeedbackResponse", tools_used |-> <<>>, metadata |-> {}]

(* the handler's answer once send_message has returned (message, tools_used) *)
Respond(r, message, tools_used) ==
    /\ result' = [result EXCEPT ![r] = [message |-> message, tools_used |-> tools_used]]
    /\ http' = [http EXCEPT ![r] = 200]
    /\ body' = [body EXCEPT ![r] =
            IF req[r].handler = "router" THEN RouterBody(message.content, tools_used)
            ELSE IF req[r].handler = "main" THEN MainBody(message.content)
            ELSE ServerBody(message.content, message.metadata)]
    /\ pc' = [pc EXCEPT ![r] = "done"]

(* ---------- actions ---------- *)
(* router create_conversation: POST / *)
create_conversation ==
    /\ nextId <= MaxConversations
    /\ \E user_id \in {"u1"} :
          store' = save(nextId, [user_id |-> user_id, messages |-> <<>>])
    /\ nextId' = nextId + 1
    /\ UNCHANGED <<served, config, pc, req, conversation, snapshot, checks,
                   agent_response, result, http, body, error, log>>
    /\ UNCHANGED <<scored, adapters_io>>

(* an /invocations request arrives at one of the three handlers *)
Receive(r, HS, PS, FS, CS, max) ==
    /\ pc[r] \in {"idle", "done"}
    /\ served < max
    /\ \E h \in HS, p \in PS, f \in FS, c \in CS :
          /\ c = MalformedId => h = "server"
          /\ (h \in Handlers /\ (c = NoId \/ h = "main")) => nextId <= MaxConversations
          /\ req' = [req EXCEPT ![r] =
                [handler |-> h, prompt |-> p, feedback |-> f, conversation_id |-> c,
                 model |-> "model", user_id |-> IF h = "server" THEN "u1" ELSE None]]
          /\ pc' = [pc EXCEPT ![r] = IF h \in {"router", "feedback"} THEN "feedback" ELSE h]
    /\ served' = served + 1
    /\ conversation' = [conversation EXCEPT ![r] = NoConversation]
    /\ snapshot' = [snapshot EXCEPT ![r] = NoConversation]
    /\ checks' = [checks EXCEPT ![r] = <<NoResult, NoResult>>]
    /\ agent_response' = [agent_response EXCEPT ![r] = NoResponse]
    /\ result' = [result EXCEPT ![r] = NoReturn]
    /\ http' = [http EXCEPT ![r] = 0]
    /\ body' = [body EXCEPT ![r] = NoBody]
    /\ error' = [error EXCEPT ![r] = NoError]
    /\ log' = [log EXCEPT ![r] = <<>>]
    /\ UNCHANGED <<store, nextId, config>>
    /\ UNCHANGED <<scored, adapters_io>>

(* server.invocations up to the try block *)
server_invocations(r) ==
    /\ pc[r] = "server"
    /\ IF req[r].conversation_id = MalformedId
       THEN \* UUID() raises outside the try block
            Fail(r, "ValueError", "UUID", 500)
       ELSE IF Falsy(req[r].prompt) /\ ~req[r].feedback.given
       THEN Fail(r, "HTTPException", "validation", 400)
       ELSE /\ pc' = [pc EXCEPT ![r] = "feedback"]
            /\ UNCHANGED <<http, error>>
    /\ UNCHANGED <<store, nextId, served, config, req, conversation,
                   snapshot, checks, agent_response, result, body, log>>
    /\ UNCHANGED <<scored, adapters_io>>

(* main.invocations up to its call of the router's send_message *)
main_invocations(r) ==
    /\ pc[r] = "main"
    /\ IF Falsy(req[r].prompt)
       THEN /\ Fail(r, "HTTPException", "validation", 400)
            /\ UNCHANGED req
       ELSE /\ req' = [req EXCEPT ![r].feedback = NoFeedback, ![r].conversation_id = NoId]
            /\ pc' = [pc EXCEPT ![r] = "feedback"]
            /\ UNCHANGED <<http, error>>
    /\ UNCHANGED <<store, nextId, served, config, conversation,
                   snapshot, checks, agent_response, result, body, log>>
    /\ UNCHANGED <<scored, adapters_io>>


Event(op, arg) == [op |-> op, arg |-> arg]
Logged(r, events) == log' = [log EXCEPT ![r] = @ \o events]

(* faulty variant: a score of exactly 0.5 counts as positive *)
feedback_score_inclusive(score) == IF score >= 5 THEN 1 ELSE 0

(* the binary score the handlers derive: 1 if score > 0.5 else 0 (tenths) *)
feedback_score(score) == IF score > 5 THEN 1 ELSE 0

(* Langfuse.create_trace_id(seed=...): the id is derived from the seed alone *)
create_trace_id(seed) == "trace-" \o seed

(* faulty variant: the seed is the adapters' trace key, user and session *)
trace_seed_per_user(user_id, session_id, message_id) == user_id \o "_" \o session_id

(* log_feedback line 136: the seed of the trace id *)
trace_seed(user_id, session_id, message_id) == session_id

(* log_feedback lines 139-148: the span and the score_trace call the sink
   receives; of records the arguments of the log_feedback call it came from *)
score_trace(user_id, session_id, message_id, score, comment) ==
    [trace_id |-> create_trace_id(trace_seed(user_id, session_id, message_id)),
     name |-> "user-feedback", value |-> score, comment |-> comment,
     feedback_for |-> message_id,
     of |-> [user_id |-> user_id, session_id |-> session_id]]

(* what the try block of log_feedback can do: nothing but a log line when
   Langfuse is disabled; otherwise the client is configured and score_trace
   is called, and either step may raise *)
SinkOutcomes(enabled) ==
    IF enabled THEN {"score_trace", "score_trace_failed", "get_client_failed"}
    ELSE {"not_enabled"}
SinkFailed(outcome) == outcome \in {"score_trace_failed", "get_client_failed"}
SinkEvents(outcome, score) ==
    IF outcome = "not_enabled" THEN <<>> ELSE <<Event(outcome, score)>>

(* faulty variant: the exception of the sink leaves log_feedback *)
log_feedback_except_reraise(outcome) == IF SinkFailed(outcome) THEN "raised" ELSE "returned"

(* faulty variant: only a failure of score_trace is caught *)
log_feedback_except_score_only(outcome) ==
    IF outcome = "get_client_failed" THEN "raised" ELSE "returned"

(* log_feedback lines 153-154: except Exception logs the failure *)
log_feedback_except(outcome) == "returned"

(* the sink after one log_feedback call *)
sink_after(outcome, user_id, session_id, message_id, score, comment) ==
    IF outcome = "score_trace"
    THEN scored \cup {score_trace(user_id, session_id, message_id, score, comment)}
    ELSE scored

(* the handlers' "if feedback:" block with ConversationService.log_feedback:
   the router's handlers pass "default_user", server.py the request's user *)
log_feedback(r) ==
    /\ pc[r] = "feedback"
    /\ IF req[r].feedback.given
       THEN LET score == feedback_score(req[r].feedback.score)
                user_id == IF req[r].handler = "server" THEN req[r].user_id
                           ELSE "default_user"
            IN  \E outcome \in SinkOutcomes(langfuse_enabled) :
                   /\ Logged(r, <<Event("log_feedback", score)>> \o SinkEvents(outcome, score))
                   /\ scored' = sink_after(outcome, user_id, req[r].feedback.session_id,
                                           req[r].feedback.run_id, score,
                                           req[r].feedback.comment)
                   /\ IF log_feedback_except(outcome) = "raised"
                      THEN /\ Raise(r, "Exception", "log_feedback")
                           /\ UNCHANGED body
                      ELSE IF req[r].handler = "feedback"
                      THEN \* submit_feedback lines 173-176: FeedbackResponse
                           /\ http' = [http EXCEPT ![r] = 200]
                           /\ body' = [body EXCEPT ![r] = FeedbackBody]
                           /\ pc' = [pc EXCEPT ![r] = "done"]
                           /\ UNCHANGED error
                      ELSE /\ pc' = [pc EXCEPT ![r] = "prompt"]
                           /\ UNCHANGED <<http, body, error>>
       ELSE /\ pc' = [pc EXCEPT ![r] = "prompt"]
            /\ UNCHANGED <<log, scored, http, body, error>>
    /\ UNCHANGED <<store, nextId, served, config, req, conversation,
                   snapshot, checks, agent_response, result>>
    /\ UNCHANGED adapters_io

(* "if not prompt": router lines 117-120, server lines 99-100 *)
prompt_check(r) ==
    /\ pc[r] = "prompt"
    /\ IF ~Falsy(req[r].prompt)
       THEN /\ pc' = [pc EXCEPT ![r] = "resolve"]
            /\ UNCHANGED <<http, body, error>>
       ELSE IF UsesRouter(r)
       THEN IF ~req[r].feedback.given
            THEN \* HTTPException(400) is raised inside the try block
                 /\ Raise(r, "HTTPException", "validation")
                 /\ UNCHANGED body
            ELSE /\ http' = [http EXCEPT ![r] = 200]
                 /\ body' = [body EXCEPT ![r] = RouterBody("Feedback received", <<>>)]
                 /\ pc' = [pc EXCEPT ![r] = "done"]
                 /\ UNCHANGED error
       ELSE /\ http' = [http EXCEPT ![r] = 200]
            /\ body' = [body EXCEPT ![r] = ServerAck]
            /\ pc' = [pc EXCEPT ![r] = "done"]
            /\ UNCHANGED error
    /\ UNCHANGED <<store, nextId, served, config, req, conversation,
                   snapshot, checks, agent_response, result, log>>
    /\ UNCHANGED <<scored, adapters_io>>

(* ConversationService.start_conversation: create and save *)
start_conversation(r, user_id) ==
    /\ store' = save(nextId, [user_id |-> user_id, messages |-> <<>>])
    /\ req' = [req EXCEPT ![r].conversation_id = nextId]
    /\ nextId' = nextId + 1
    /\ Logged(r, <<Event("start_conversation", 0)>>)

(* router send_message lines 122-126: use the conversation or create one *)
router_resolve(r) ==
    /\ pc[r] = "resolve"
    /\ UsesRouter(r)
    /\ IF req[r].conversation_id = NoId
       THEN start_conversation(r, "default_user")
       ELSE UNCHANGED <<store, req, nextId, log>>
    /\ pc' = [pc EXCEPT ![r] = "get"]
    /\ UNCHANGED <<served, config, conversation, snapshot, checks,
                   agent_response, result, http, body, error>>
    /\ UNCHANGED <<scored, adapters_io>>

(* the send_message that server.invocations calls, step 1: resolve or create *)
cx_resolve(r) ==
    /\ pc[r] = "resolve"
    /\ ~UsesRouter(r)
    /\ IF req[r].conversation_id = NoId
       THEN start_conversation(r, req[r].user_id)
       ELSE UNCHANGED <<store, req, nextId, log>>
    /\ pc' = [pc EXCEPT ![r] = "get"]
    /\ UNCHANGED <<served, config, conversation, snapshot, checks,
                   agent_response, result, http, body, error>>
    /\ UNCHANGED <<scored, adapters_io>>

(* faulty variant: the agent is called right after the read *)
after_read_agent == "agent"

(* send_message lines 46-50: the input check follows the read *)
after_read == "check_input"

(* send_message lines 41-44: read the conversation or raise ValueError *)
send_message_get(r) ==
    /\ pc[r] = "get"
    /\ Logged(r, <<Event("get_by_id", 0)>>)
    /\ IF Stored(req[r].conversation_id)
       THEN /\ conversation' = [conversation EXCEPT ![r] = get_by_id(req[r].conversation_id)]
            /\ snapshot' = [snapshot EXCEPT ![r] = get_by_id(req[r].conversation_id)]
            /\ pc' = [pc EXCEPT ![r] = after_read]
            /\ UNCHANGED <<http, error>>
       ELSE /\ Raise(r, "ValueError", "get_by_id")
            /\ UNCHANGED <<conversation, snapshot>>
    /\ UNCHANGED <<store, nextId, served, config, req, checks,
                   agent_response, result, body>>
    /\ UNCHANGED <<scored, adapters_io>>

(* faulty variant: the BLOCKED input assessment is ignored *)
input_blocked_never(guardrail_result) == FALSE

(* send_message line 52: the input check blocks the prompt *)
input_blocked(guardrail_result) == guardrail_result.assessment = BLOCKED

(* faulty variant: the substitute message is built without the guardrail's text *)
blocked_message_empty(guardrail_result) ==
    create_assistant_message("", blocked_metadata(guardrail_result))

(* send_message lines 53-60: the substitute assistant message *)
blocked_message(guardrail_result) ==
    create_assistant_message(guardrail_result.message, blocked_metadata(guardrail_result))

(* send_message lines 46-66: the user message and the input check *)
send_message_check_input(r) ==
    /\ pc[r] = "check_input"
    /\ LET user_message == create_user_message(req[r].prompt) IN
       IF guardrail_service
       THEN \/ \E guardrail_result \in GuardrailResults :
                /\ checks' = [checks EXCEPT ![r][1] = guardrail_result]
                /\ Logged(r, <<Event("check_input", 0)>>)
                /\ IF input_blocked(guardrail_result)
                   THEN /\ conversation' = [conversation EXCEPT ![r] =
                                add_message(add_message(@, user_message),
                                            blocked_message(guardrail_result))]
                        /\ pc' = [pc EXCEPT ![r] = "save_blocked"]
                   ELSE /\ conversation' = [conversation EXCEPT ![r] = add_message(@, user_message)]
                        /\ pc' = [pc EXCEPT ![r] = "agent"]
                /\ UNCHANGED <<http, error>>
            \/ \* check_input raises
               /\ Logged(r, <<Event("check_input", 0)>>)
               /\ Raise(r, "Exception", "check_input")
               /\ UNCHANGED <<checks, conversation>>
       ELSE /\ conversation' = [conversation EXCEPT ![r] = add_message(@, user_message)]
            /\ pc' = [pc EXCEPT ![r] = "agent"]
            /\ UNCHANGED <<checks, log, http, error>>
    /\ UNCHANGED <<store, nextId, served, config, req, snapshot,
                   agent_response, result, body>>
    /\ UNCHANGED <<scored, adapters_io>>

(* send_message lines 63-64: persist the blocked turn and return it *)
send_message_save_blocked(r) ==
    /\ pc[r] = "save_blocked"
    /\ store' = save(req[r].conversation_id, conversation[r])
    /\ Logged(r, <<Event("save", 0)>>)
    /\ Respond(r, conversation[r].messages[Len(conversation[r].messages)], <<>>)
    /\ UNCHANGED <<nextId, served, config, req, conversation, snapshot,
                   checks, agent_response, error>>
    /\ UNCHANGED <<scored, adapters_io>>


(* faulty variant: the failed agent call is made again *)
agent_failed_retry(r, exc) == UNCHANGED <<pc, http, error>>

(* faulty variant: the failure is noted and the conversation is saved all the same *)
agent_failed_saved(r, exc) ==
    /\ error' = [error EXCEPT ![r] = <<exc, "process_request">>]
    /\ pc' = [pc EXCEPT ![r] = "save"]
    /\ UNCHANGED http

(* send_message line 77: an exception of process_request leaves send_message *)
agent_failed(r, exc) == Raise(r, exc, "process_request")

(* faulty variant: the agent is handed the new user message alone *)
request_messages_new_only(r) ==
    <<conversation[r].messages[Len(conversation[r].messages)]>>

(* send_message line 70: messages=conversation.messages *)
request_messages(r) == conversation[r].messages

(* send_message lines 68-77: the agent request and the agent call; the router's
   service holds the src adapter, server.py's service the cx_agent_backend one *)
send_message_agent(r) ==
    /\ pc[r] = "agent"
    /\ Logged(r, <<Event("process_request", request_messages(r))>>)
    /\ LET agent_request == AgentRequest(request_messages(r), conversation[r].user_id,
                                          req[r].model, ToString(req[r].conversation_id))
           outcomes == IF UsesRouter(r)
                       THEN process_request(agent_request, adapter_guardrail, langfuse_enabled)
                       ELSE UNION { process_request_cx(agent_request, adapter_guardrail, stm) :
                                       stm \in BOOLEAN }
       IN  \E response \in outcomes :
              IF response.err = "none"
              THEN /\ agent_response' = [agent_response EXCEPT ![r] = response]
                   /\ pc' = [pc EXCEPT ![r] = "check_output"]
                   /\ UNCHANGED <<http, error>>
              ELSE /\ agent_failed(r, response.err)
                   /\ UNCHANGED agent_response
    /\ UNCHANGED <<store, nextId, served, config, req, conversation,
                   snapshot, checks, result, body>>
    /\ UNCHANGED <<scored, adapters_io>>

(* faulty variant: the assistant message is built without the agent's text *)
ai_message_without_content(response) ==
    create_assistant_message("",
        { <<"agent_type", response.agent_type>>,
          <<"tools_used", Join(response.tools_used)>> })

(* faulty variant: the agent's reply is stored as a user message *)
ai_message_as_user(response) == create_user_message(response.content)

(* the assistant message send_message builds from the agent's response *)
ai_message_of(response) ==
    create_assistant_message(response.content,
        { <<"agent_type", response.agent_type>>,
          <<"tools_used", Join(response.tools_used)>> })

(* faulty variants: the BLOCKED output assessment is ignored; every assessment blocks *)
output_blocked_never(guardrail_result) == FALSE
output_blocked_always(guardrail_result) == TRUE

(* send_message line 91: the output check blocks the reply *)
output_blocked(guardrail_result) == guardrail_result.assessment = BLOCKED

(* send_message lines 92-99: the substitute for the blocked reply *)
blocked_ai_message(guardrail_result) ==
    create_assistant_message(guardrail_result.message, blocked_metadata(guardrail_result))

(* send_message lines 79-101: the assistant message and the output check *)
send_message_check_output(r) ==
    /\ pc[r] = "check_output"
    /\ LET ai_message == ai_message_of(agent_response[r]) IN
       IF guardrail_service
       THEN \/ \E guardrail_result \in GuardrailResults :
                /\ checks' = [checks EXCEPT ![r][2] = guardrail_result]
                /\ Logged(r, <<Event("check_output", 0)>>)
                /\ conversation' = [conversation EXCEPT ![r] = add_message(@,
                        IF output_blocked(guardrail_result)
                        THEN blocked_ai_message(guardrail_result)
                        ELSE ai_message)]
                /\ pc' = [pc EXCEPT ![r] = "save"]
                /\ UNCHANGED <<http, error>>
            \/ \* check_output raises
               /\ Logged(r, <<Event("check_output", 0)>>)
               /\ Raise(r, "Exception", "check_output")
               /\ UNCHANGED <<checks, conversation>>
       ELSE /\ conversation' = [conversation EXCEPT ![r] = add_message(@, ai_message)]
            /\ pc' = [pc EXCEPT ![r] = "save"]
            /\ UNCHANGED <<checks, log, http, error>>
    /\ UNCHANGED <<store, nextId, served, config, req, snapshot,
                   agent_response, result, body>>
    /\ UNCHANGED <<scored, adapters_io>>

(* faulty variant: save re-reads the stored conversation and appends this turn to it *)
conversation_merged(r) ==
    [store[req[r].conversation_id] EXCEPT !.messages =
        @ \o SubSeq(conversation[r].messages, Len(snapshot[r].messages) + 1,
                     Len(conversation[r].messages))]

(* faulty variant: save is handed the messages of this turn alone *)
conversation_last_turn(r) ==
    [conversation[r] EXCEPT !.messages =
        SubSeq(@, Len(snapshot[r].messages) + 1, Len(@))]

(* the conversation send_message hands to save: its local object *)
conversation_to_save(r) == conversation[r]

(* send_message lines 103-106: persist and return *)
send_message_save(r) ==
    /\ pc[r] = "save"
    /\ store' = save(req[r].conversation_id, conversation_to_save(r))
    /\ Logged(r, <<Event("save", 0)>>)
    /\ Respond(r, conversation[r].messages[Len(conversation[r].messages)],
               agent_response[r].tools_used)
    /\ UNCHANGED <<nextId, served, config, req, conversation, snapshot,
                   checks, agent_response, error>>
    /\ UNCHANGED <<scored, adapters_io>>

(* the body of a found conversation: its id, user and messages *)
ConversationBody(id, conv) ==
    [keys |-> {"id", "user_id", "messages"}, message |-> None, tools_used |-> <<>>,
     metadata |-> {}, id |-> id, user_id |-> conv.user_id, messages |-> conv.messages]

(* faulty variant: a missing conversation is answered like a found one *)
get_conversation_status_always_200(found) == 200

(* router get_conversation lines 88-92: 404 when the service returns None *)
get_conversation_status(found) == IF found THEN 200 ELSE 404

(* router get_conversation with ConversationService.get_conversation: one
   repository read, then the conversation or HTTPException(404) *)
get_conversation(r) ==
    /\ pc[r] = "get_conversation"
    /\ Logged(r, <<Event("get_by_id", 0)>>)
    /\ LET id == req[r].conversation_id
           status == get_conversation_status(Stored(id))
       IN  IF status = 200
           THEN /\ http' = [http EXCEPT ![r] = 200]
                /\ body' = [body EXCEPT ![r] =
                        IF Stored(id) THEN ConversationBody(id, get_by_id(id)) ELSE NoBody]
                /\ pc' = [pc EXCEPT ![r] = "done"]
                /\ UNCHANGED error
           ELSE /\ Fail(r, "HTTPException", "get_conversation", status)
                /\ UNCHANGED body
    /\ UNCHANGED <<store, nextId, served, config, req, conversation,
                   snapshot, checks, agent_response, result, scored, adapters_io>>

(* ---------- specifications ---------- *)
ConversationIds == {NoId, UnknownId, MalformedId} \cup DOMAIN store

(* router requests with a prompt, one at a time: task 1 serves every request *)
receive(r) ==
    /\ r = 1
    /\ Receive(r, {"router"}, {"hi"}, {NoFeedback}, ConversationIds \ {MalformedId},
               MaxRequests)

(* any request at any handler, one at a time *)
receive_http(r) ==
    /\ r = 1
    /\ Receive(r, Handlers, Prompts, Feedbacks, ConversationIds, MaxHttpRequests)

(* router get_conversation: a GET /{conversation_id} request arrives *)
receive_get(r) ==
    /\ r = 1
    /\ Receive(r, {"get_conversation"}, {None}, {NoFeedback},
               {UnknownId} \cup DOMAIN store, MaxHttpRequests)

(* router submit_feedback: a POST /feedback request arrives *)
submit_feedback(r) ==
    /\ r = 1
    /\ Receive(r, {"feedback"}, {None}, Feedbacks \ {NoFeedback}, {NoId}, MaxHttpRequests)

(* two router requests with a prompt on stored conversations, interleaved *)
receive_concurrent(r) ==
    /\ pc[r] = "idle"
    /\ Receive(r, {"router"}, {"hi"}, {NoFeedback}, DOMAIN store, MaxRequests)

Pipeline(r) ==
    \/ log_feedback(r)
    \/ prompt_check(r)
    \/ router_resolve(r)
    \/ send_message_get(r)
    \/ send_message_check_input(r)
    \/ send_message_save_blocked(r)
    \/ send_message_agent(r)
    \/ send_message_check_output(r)
    \/ send_message_save(r)

Next ==
    \/ create_conversation
    \/ \E r \in Reqs :
          \/ receive(r)
          \/ Pipeline(r)

Spec == Init /\ [][Next]_vars

NextHttp ==
    \/ create_conversation
    \/ \E r \in Reqs :
          \/ receive_http(r)
          \/ submit_feedback(r)
          \/ receive_get(r)
          \/ get_conversation(r)
          \/ server_invocations(r)
          \/ main_invocations(r)
          \/ cx_resolve(r)
          \/ Pipeline(r)

SpecHttp == Init /\ [][NextHttp]_vars

NextConc ==
    \/ create_conversation
    \/ \E r \in Reqs :
          \/ receive_concurrent(r)
          \/ Pipeline(r)

SpecConc == Init /\ [][NextConc]_vars

(* ConversationService.log_feedback called with any arguments *)
FeedbackUsers == {"default_user", "u1"}
FeedbackSessions == {"s1", "s2"}
FeedbackMessages == {"m1", "m2"}
FeedbackComments == {None, "good"}

log_feedback_call ==
    /\ Cardinality(scored) < MaxScored
    /\ \E user_id \in FeedbackUsers, session_id \in FeedbackSessions,
          message_id \in FeedbackMessages, score \in {0, 1},
          comment \in FeedbackComments, outcome \in SinkOutcomes(langfuse_enabled) :
            /\ log_feedback_except(outcome) = "returned"
            /\ scored' = sink_after(outcome, user_id, session_id, message_id, score, comment)
    /\ UNCHANGED <<service, adapters_io>>

NextFeedback == log_feedback_call

SpecFeedback == Init /\ [][NextFeedback]_vars

(* ---------- stream_response ---------- *)
Adapters == {"src", "cx_agent_backend"}

(* a chunk of agent.astream: a dict that may hold a "messages" entry *)
Chunk(has_messages, messages) == [has_messages |-> has_messages, messages |-> messages]
StreamChunks ==
    { Chunk(FALSE, <<>>),
      Chunk(TRUE, <<AIMessage("a", <<>>)>>),
      Chunk(TRUE, <<AIMessage("", <<"kb">>), ToolMessage("b")>>) }
ChunkStreams == UNION { [1..n -> StreamChunks] : n \in 0..MaxChunks }

(* _create_agent is "async def" in cx_agent_backend (line 116) and a plain
   function in src (line 38); neither stream_response awaits it *)
create_agent_is_coroutine(adapter) == adapter = "cx_agent_backend"
create_agent_awaited(adapter) == FALSE

(* the loop body of stream_response: the non-empty contents of the messages
   of a chunk that has a "messages" entry *)
RECURSIVE contents(_)
contents(messages) ==
    IF Len(messages) = 0 THEN <<>>
    ELSE (IF ~Falsy(Head(messages).content) THEN <<Head(messages).content>> ELSE <<>>)
         \o contents(Tail(messages))
yields_of(chunk) == IF chunk.has_messages THEN contents(chunk.messages) ELSE <<>>

stream_fixed == <<service, scored, transcript, extracted, harvested, stream_of, chunks, frontend>>

(* stream_response up to the loop: the agent is created; unpacking or using a
   coroutine that was never awaited raises TypeError *)
stream_create_agent ==
    /\ stream_pc = "called"
    /\ stream_pc' = IF create_agent_is_coroutine(stream_of) /\ ~create_agent_awaited(stream_of)
                    THEN "TypeError" ELSE "streaming"
    /\ UNCHANGED <<stream_fixed, cursor, yielded>>

(* one iteration of "async for chunk in agent.astream(...)" *)
stream_chunk ==
    /\ stream_pc = "streaming"
    /\ cursor < Len(chunks)
    /\ cursor' = cursor + 1
    /\ yielded' = yielded \o yields_of(chunks[cursor + 1])
    /\ UNCHANGED <<stream_fixed, stream_pc>>

(* the underlying stream is exhausted: the generator ends *)
stream_end ==
    /\ stream_pc = "streaming"
    /\ cursor = Len(chunks)
    /\ stream_pc' = "ended"
    /\ UNCHANGED <<stream_fixed, cursor, yielded>>

InitStreamCall ==
    /\ InitService /\ InitExtraction /\ InitFrontend
    /\ stream_of \in Adapters
    /\ stream_pc = "called"
    /\ chunks \in ChunkStreams
    /\ cursor = 0
    /\ yielded = <<>>

NextStream ==
    \/ stream_create_agent
    \/ stream_chunk
    \/ stream_end

SpecStream == InitStreamCall /\ [][NextStream]_vars

(* the extraction loop of process_request run on one transcript *)
extract_tools ==
    /\ extracted' \in tools_used_of(transcript)
    /\ UNCHANGED <<service, scored, transcript, harvested,
                   stream_of, stream_pc, chunks, cursor, yielded, frontend>>

(* the messages of a transcript whose tools answered *)
ToolTranscriptMessages ==
    { AIMessage("", <<"kb">>) } \cup
    { ToolMessage(payload) : payload \in WellFormedPayloads \cup MalformedPayloads }
ToolTranscripts == UNION { [1..n -> ToolTranscriptMessages] : n \in 1..MaxTranscript }

(* lines 266-331 of the cx_agent_backend adapter run on one transcript *)
harvest_cx ==
    /\ harvested = NotHarvested
    /\ \E tools_used \in tools_used_of(transcript) :
          LET h == harvest(transcript, Harvest(<<>>, None))
          IN  harvested' = [harvest |-> h, response |-> cx_response(transcript, tools_used, h)]
    /\ UNCHANGED <<service, scored, transcript, extracted,
                   stream_of, stream_pc, chunks, cursor, yielded, frontend>>

InitExtract ==
    /\ InitService /\ InitStream /\ InitFrontend
    /\ ~guardrail_service /\ ~adapter_guardrail /\ ~langfuse_enabled
    /\ transcript \in Transcripts \cup ToolTranscripts
    /\ extracted = NotExtracted
    /\ harvested = NotHarvested

NextExtract ==
    \/ extract_tools
    \/ harvest_cx

SpecExtract == InitExtract /\ [][NextExtract]_vars


(* ---------- the frontend's feedback controls ---------- *)
(* a displayed message; metadata carries a message_id or none *)
ChatMessage(role, content, message_id) ==
    [role |-> role, content |-> content, message_id |-> message_id]
ChatMessages ==
    {ChatMessage("user", "hi", None),
     ChatMessage("assistant", "raw", None),
     ChatMessage("assistant", "blocked", None),
     ChatMessage("assistant", "raw", "m1")}
Chats == UNION {[1..n -> ChatMessages] : n \in 0..MaxChat}
(* hash(message.content): a value that depends on the content alone *)
hash(content) == "hash(" \o content \o ")"
(* str(message.metadata.get("message_id", hash(message.content))) *)
message_id_of(message) ==
    IF message.message_id # None THEN message.message_id ELSE hash(message.content)
(* the ids of the messages render_message gives feedback controls to *)
AssistantIds ==
    {message_id_of(chat[k]) : k \in {j \in 1..Len(chat) : chat[j].role = "assistant"}}
(* if feedback_key not in st.session_state: st.session_state[feedback_key] = False *)
with_flags(state) ==
    [id \in DOMAIN state \cup AssistantIds |-> IF id \in DOMAIN state THEN state[id] ELSE FALSE]
(* if not st.session_state[feedback_key]: the buttons are rendered *)
controls_of(state) == {id \in AssistantIds : ~state[id]}
(* what the POST /invocations of submit_feedback ends with *)
FeedbackReplies == {"200", "400", "500", "ConnectionError"}
(* raise_for_status() passes and True is returned, or the except returns False *)
submit_feedback_returns(reply) == reply = "200"
Submission(run_id, score, ok) == [run_id |-> run_id, score |-> score, ok |-> ok]
(* faulty variant: the flag is set whatever submit_feedback returned *)
flag_after_any_submission(flag, ok) == TRUE
(* if client.submit_feedback(...): st.session_state[feedback_key] = True *)
flag_after(flag, ok) == IF ok THEN TRUE ELSE flag
(* a button is True only in the run its own click started, so in the run
   the Submit click starts the enclosing "Not helpful" button is False *)
down_button_in_submit_run == FALSE

(* a run of the script: every displayed message is rendered *)
render ==
    /\ session_state' = with_flags(session_state)
    /\ controls' = controls_of(session_state')
    /\ forms' = {}
    /\ UNCHANGED <<chat, submissions>>

(* the run a click on "Helpful" starts; st.rerun() follows a success *)
click_up ==
    \E id \in controls, reply \in FeedbackReplies :
        LET ok == submit_feedback_returns(reply) IN
        /\ submissions' = submissions \cup {Submission(id, "1.0", ok)}
        /\ session_state' =
              [with_flags(session_state) EXCEPT ![id] = flag_after(@, ok)]
        /\ controls' = controls_of(session_state')
        /\ forms' = {}
        /\ UNCHANGED chat

(* the run a click on "Not helpful" starts: the comment form is rendered *)
click_down ==
    \E id \in controls :
        /\ session_state' = with_flags(session_state)
        /\ controls' = controls_of(session_state')
        /\ forms' = {id}
        /\ UNCHANGED <<chat, submissions>>

(* the run a click on "Submit Feedback" starts *)
click_submit ==
    \E id \in forms, reply \in FeedbackReplies :
        LET called == down_button_in_submit_run /\ ~session_state[id]
            ok == submit_feedback_returns(reply)
        IN
        /\ submissions' =
              IF called THEN submissions \cup {Submission(id, "0.0", ok)} ELSE submissions
        /\ session_state' =
              IF called
              THEN [with_flags(session_state) EXCEPT ![id] = flag_after(@, ok)]
              ELSE with_flags(session_state)
        /\ controls' = controls_of(session_state')
        /\ forms' = {}
        /\ UNCHANGED chat

backend_fixed == <<service, scored, transcript, extracted, harvested,
                   stream_of, stream_pc, chunks, cursor, yielded>>

InitChat ==
    /\ InitService /\ InitExtraction /\ InitStream
    /\ ~guardrail_service /\ ~adapter_guardrail /\ ~langfuse_enabled
    /\ chat \in Chats
    /\ session_state = <<>>
    /\ controls = {}
    /\ forms = {}
    /\ submissions = {}

NextFrontend ==
    \/ (render /\ UNCHANGED backend_fixed)
    \/ (click_up /\ UNCHANGED backend_fixed)
    \/ (click_down /\ UNCHANGED backend_fixed)
    \/ (click_submit /\ UNCHANGED backend_fixed)

SpecFrontend == InitChat /\ [][NextFrontend]_vars


(* ---------- properties ---------- *)
Last(s) == s[Len(s)]
Ops(r) == {log[r][i].op : i \in 1..Len(log[r])}
Count(r, op) == Cardinality({i \in 1..Len(log[r]) : log[r][i].op = op})
Done(r) == pc[r] = "done"
(* send_message returned to the handler, which answered 200 *)
Returned(r) == Done(r) /\ http[r] = 200 /\ result[r] # NoReturn
Persisted(r) == store[req[r].conversation_id].messages
InputBlocked(r) == checks[r][1].assessment = BLOCKED
OutputBlocked(r) == checks[r][2].assessment = BLOCKED
(* the adapter's own output check blocked the framework's reply *)
AdapterOutputBlocked(r) == agent_response[r].observed[3].assessment = BLOCKED
RawOutput(r) == agent_response[r].observed[2]

(* C1: a send_message call on an existing conversation whose prompt the input
   check does not block returns the agent's content, or the output check's
   substitute when that check blocks, and the persisted conversation is the
   one read plus exactly the user message and then the assistant message. *)
C1_ReplyAndTwoMessages ==
    \A r \in Reqs :
        (Returned(r) /\ ~InputBlocked(r)) =>
            LET before == snapshot[r].messages
                after == Persisted(r)
                n == Len(before)
            IN  /\ result[r].message.content =
                        IF OutputBlocked(r) THEN checks[r][2].message
                        ELSE agent_response[r].content
                /\ Len(after) = n + 2
                /\ SubSeq(after, 1, n) = before
                /\ after[n + 1] = [role |-> "user", content |-> req[r].prompt, metadata |-> {}]
                /\ after[n + 2].role = "assistant"
                /\ after[n + 2] = result[r].message
C1_Witness ==
    \E r \in Reqs :
        /\ Returned(r) /\ ~InputBlocked(r)
        /\ Len(snapshot[r].messages) > 0
        /\ result[r].message.content = "raw"

(* C2: once the input check has returned BLOCKED the agent's process_request
   is never called in that request, and the tools list returned is empty. *)
C2_BlockedInputSkipsAgent ==
    \A r \in Reqs :
        InputBlocked(r) =>
            /\ "process_request" \notin Ops(r)
            /\ Done(r) => (result[r].tools_used = <<>> /\ body[r].tools_used = <<>>)
C2_Witness ==
    \E r \in Reqs : Returned(r) /\ InputBlocked(r) /\ body[r].keys = {"response", "tools_used"}

(* C3: when the input check blocks, the user message and an assistant message
   carrying the guardrail's substitute are appended, the conversation is saved
   exactly once, that assistant message is returned, and neither the agent
   nor the output check runs. *)
C3_BlockedInputTurn ==
    \A r \in Reqs :
        (Returned(r) /\ InputBlocked(r)) =>
            LET before == snapshot[r].messages
                after == Persisted(r)
                n == Len(before)
            IN  /\ Len(after) = n + 2
                /\ SubSeq(after, 1, n) = before
                /\ after[n + 1] = [role |-> "user", content |-> req[r].prompt, metadata |-> {}]
                /\ after[n + 2].role = "assistant"
                /\ after[n + 2].content = checks[r][1].message
                /\ result[r].message = after[n + 2]
                /\ Count(r, "save") = 1
                /\ Ops(r) \cap {"process_request", "check_output"} = {}
C3_Witness ==
    \E r \in Reqs :
        /\ Returned(r) /\ InputBlocked(r)
        /\ Count(r, "save") = 1
        /\ Last(Persisted(r)).content = "blocked"

(* C4: when an output check returns BLOCKED, in send_message or in the
   adapter, the assistant message persisted and returned carries the
   substitute of that check and not the framework's raw reply. *)
C4_BlockedOutputSubstituted ==
    \A r \in Reqs :
        Returned(r) =>
            LET m == Last(Persisted(r)) IN
            /\ OutputBlocked(r) =>
                   /\ m.content = checks[r][2].message
                   /\ result[r].message.content = checks[r][2].message
                   /\ m.content # RawOutput(r)
            /\ (~OutputBlocked(r) /\ AdapterOutputBlocked(r)) =>
                   /\ m.content = agent_response[r].observed[3].message
                   /\ result[r].message.content = m.content
                   /\ m.content # RawOutput(r)
C4_Witness ==
    \E r \in Reqs :
        /\ Returned(r) /\ OutputBlocked(r) /\ ~AdapterOutputBlocked(r)
        /\ agent_response[r].content = "raw"
        /\ Last(Persisted(r)).content = "blocked"

(* C5: two requests on one conversation that both read it before either saved
   and both returned leave only one turn persisted: the store holds the
   conversation of one of them and lacks the messages of the other. *)
Overlapped(r1, r2) ==
    /\ r1 # r2
    /\ Returned(r1) /\ Returned(r2)
    /\ req[r1].conversation_id = req[r2].conversation_id
    /\ snapshot[r1] = snapshot[r2]
C5_LostUpdate ==
    \A r1, r2 \in Reqs :
        Overlapped(r1, r2) =>
            /\ Len(Persisted(r1)) = Len(snapshot[r1].messages) + 2
            /\ store[req[r1].conversation_id] \in {conversation[r1], conversation[r2]}
C5_Witness ==
    \E r1, r2 \in Reqs :
        /\ Overlapped(r1, r2)
        /\ Len(conversation[r1].messages) = 2 /\ Len(conversation[r2].messages) = 2
        /\ Len(Persisted(r1)) = 2

(* C6: every /invocations handler answers a request with neither prompt nor
   feedback (and no ill-formed conversation id) with 400, creating or changing
   no conversation and logging no feedback. *)
C6_NeitherPromptNorFeedback ==
    \A r \in Reqs :
        (/\ Done(r) /\ Falsy(req[r].prompt) /\ ~req[r].feedback.given
         /\ req[r].conversation_id # MalformedId) =>
            /\ http[r] = 400
            /\ log[r] = <<>>

(* C7: a failure during /invocations processing that is neither the unknown
   conversation id nor the request's validation is answered with 500. *)
C7_FailuresAreServerErrors ==
    \A r \in Reqs :
        (Done(r) /\ error[r][2] \in {"UUID", "check_input", "process_request", "check_output"}) =>
            http[r] = 500

(* C8: send_message on a conversation id that is not stored raises ValueError,
   answered with 404, and has run no guardrail check, no agent call and no
   save. *)
C8_UnknownConversation ==
    \A r \in Reqs :
        (Done(r) /\ "get_by_id" \in Ops(r) /\ ~Stored(req[r].conversation_id)) =>
            /\ error[r] = <<"ValueError", "get_by_id">>
            /\ http[r] = 404
            /\ Ops(r) \cap {"check_input", "check_output", "process_request",
                             "save", "start_conversation"} = {}
C8_Witness ==
    \E r \in Reqs :
        /\ Done(r) /\ req[r].handler = "router"
        /\ req[r].conversation_id = UnknownId
        /\ http[r] = 404

(* C9: when neither check returns BLOCKED, send_message persists and returns
   what it does with no guardrail service: the conversation read, the user
   message, the assistant message with the agent's content and tool metadata,
   and the agent's tools list. *)
C9_AllowedIsPassThrough ==
    \A r \in Reqs :
        (Returned(r) /\ ~InputBlocked(r) /\ ~OutputBlocked(r)) =>
            LET assistant == [role |-> "assistant", content |-> agent_response[r].content,
                              metadata |-> { <<"agent_type", CUSTOMER_SERVICE>>,
                                             <<"tools_used", Join(agent_response[r].tools_used)>> }]
            IN  /\ Persisted(r) = snapshot[r].messages \o
                        << [role |-> "user", content |-> req[r].prompt, metadata |-> {}],
                           assistant >>
                /\ result[r] = [message |-> assistant, tools_used |-> agent_response[r].tools_used]
C9_Witness ==
    \E r \in Reqs :
        /\ Returned(r) /\ guardrail_service
        /\ checks[r][1].assessment = ALLOWED /\ checks[r][2].assessment = ALLOWED
        /\ Len(agent_response[r].tools_used) = 2

(* C10: whenever an output check returned BLOCKED for the turn, in the adapter
   or in send_message, the persisted assistant message carries the blocked
   categories in its metadata. *)
C10_BlockedCategoriesKept ==
    \A r \in Reqs :
        (Returned(r) /\ (OutputBlocked(r) \/ AdapterOutputBlocked(r))) =>
            HasKey(Last(Persisted(r)).metadata, "blocked_categories")

(* C11: a router /invocations request with a prompt and no conversation_id
   creates a new conversation; once the request has completed, that
   conversation holds exactly the user message and then one assistant message,
   and the response's tools_used is the tools list the agent reported (the
   empty list when the input check blocked the prompt and no agent ran). *)
C11_NewConversationTurn ==
    \A r \in Reqs :
        (Returned(r) /\ req[r].handler = "router" /\ "start_conversation" \in Ops(r)) =>
            /\ Stored(req[r].conversation_id)
            /\ snapshot[r] = [user_id |-> "default_user", messages |-> <<>>]
            /\ Len(Persisted(r)) = 2
            /\ Persisted(r)[1] = create_user_message(req[r].prompt)
            /\ Persisted(r)[2].role = "assistant"
            /\ body[r].keys = {"response", "tools_used"}
            /\ body[r].tools_used = agent_response[r].tools_used
            /\ (InputBlocked(r) => body[r].tools_used = <<>>)

C11_Witness ==
    \E r \in Reqs :
        /\ Returned(r) /\ req[r].handler = "router" /\ "start_conversation" \in Ops(r)
        /\ Count(r, "process_request") = 1
        /\ Len(body[r].tools_used) = 2

(* C12: the cx_agent_backend adapter's process_request, given an AgentRequest
   of the domain interface, returns an AgentResponse on every path: a call
   that fails fails because a collaborator or the configuration failed, never
   because of an error the adapter raises itself (AttributeError, TypeError). *)
C12_CxAdapterReturns ==
    \A r \in Reqs :
        (req[r].handler = "server" /\ error[r][2] = "process_request") =>
            error[r][1] \in {"ValueError", "Exception"}

Reorderings(s) ==
    { [i \in 1..Len(s) |-> s[f[i]]] :
        f \in {g \in [1..Len(s) -> 1..Len(s)] : \A i, j \in 1..Len(s) : i # j => g[i] # g[j]} }
NoDuplicates(s) == \A i, j \in 1..Len(s) : i # j => s[i] # s[j]

(* C13: the extracted tools list holds each tool name at most once, its set
   of names is the set of the names in the tool_calls of the transcript's AI
   messages, and every run on the transcript or on a permutation of it gives
   a list with that same set. *)
C13_ToolsUsedIsTheSetOfCalls ==
    extracted # NotExtracted =>
        /\ NoDuplicates(extracted)
        /\ Range(extracted) =
              UNION { Range(transcript[i].tool_calls) :
                        i \in {j \in 1..Len(transcript) : transcript[j].type = "AIMessage"} }
        /\ \A p \in Reorderings(transcript) :
              \A again \in tools_used_of(p) : Range(again) = Range(extracted)

C13_Witness ==
    /\ extracted # NotExtracted
    /\ Len(extracted) = 2
    /\ Len(tool_call_names(transcript)) = 3
    /\ \E p \in Reorderings(transcript) : tool_call_names(p) # tool_call_names(transcript)

FeedbackEvents(r) == {i \in 1..Len(log[r]) : log[r][i].op = "log_feedback"}

(* C14: in the router's send_message and submit_feedback and in server.py's
   invocations, the score handed to log_feedback is 1 when the submitted score
   is above 0.5 and 0 for every other score, 0.5 itself included. *)
C14_ScoreThreshold ==
    \A r \in Reqs : \A i \in FeedbackEvents(r) :
        /\ req[r].handler \in {"router", "feedback", "server"}
        /\ req[r].feedback.given
        /\ log[r][i].arg \in {0, 1}
        /\ log[r][i].arg = 1 <=> req[r].feedback.score > 5
        /\ \A t \in scored : t.value \in {0, 1}

C14_Witness ==
    \E r \in Reqs : \E i \in FeedbackEvents(r) :
        /\ req[r].handler = "feedback"
        /\ req[r].feedback.score = 5
        /\ log[r][i].arg = 0

SinkOps == {"score_trace", "score_trace_failed", "get_client_failed"}

(* C15: log_feedback returns normally to its caller whatever the telemetry
   sink does: a failure while configuring or calling the sink never fails the
   request, and with telemetry disabled the sink is not called at all. *)
C15_FeedbackNeverFails ==
    \A r \in Reqs :
        /\ error[r][2] # "log_feedback"
        /\ (FeedbackEvents(r) # {} /\ req[r].handler = "feedback") =>
                (Done(r) /\ http[r] = 200 /\ body[r] = FeedbackBody)
        /\ ~langfuse_enabled => (Ops(r) \cap SinkOps = {} /\ scored = {})

C15_Witness ==
    \E r \in Reqs :
        /\ Done(r) /\ http[r] = 200
        /\ Ops(r) \cap {"score_trace_failed", "get_client_failed"} # {}

C15_WitnessDisabled ==
    \E r \in Reqs : Done(r) /\ FeedbackEvents(r) # {} /\ ~langfuse_enabled

PipelineOps ==
    {"start_conversation", "get_by_id", "check_input", "process_request", "check_output", "save"}

(* C16: a request that carries feedback but no prompt is accepted by every
   /invocations handler: the feedback is logged, the answer is the
   acknowledgement "Feedback received" with no tools, and no step of the
   conversation pipeline runs. *)
C16_FeedbackOnlyAccepted ==
    \A r \in Reqs :
        (/\ Done(r) /\ req[r].handler \in Handlers
         /\ Falsy(req[r].prompt) /\ req[r].feedback.given
         /\ req[r].conversation_id # MalformedId) =>
            /\ http[r] = 200
            /\ body[r].message = "Feedback received"
            /\ body[r].tools_used = <<>>
            /\ Count(r, "log_feedback") = 1
            /\ Ops(r) \cap PipelineOps = {}

CollaboratorCalls == {"get_by_id", "check_input", "process_request", "check_output", "save"}

(* C17: within one send_message call the agent is invoked at most once and
   the conversation is saved at most once; a collaborator call that fails
   ends the call: it is made once and nothing is called after it. *)
C17_NoRetry ==
    \A r \in Reqs :
        /\ \A op \in CollaboratorCalls : Count(r, op) <= 1
        /\ error[r][2] \in CollaboratorCalls =>
              (Done(r) /\ Count(r, error[r][2]) = 1 /\ Last(log[r]).op = error[r][2])

C17_Witness ==
    \E r \in Reqs :
        /\ Done(r) /\ error[r] = <<"Exception", "process_request">>
        /\ Count(r, "process_request") = 1 /\ Count(r, "save") = 0

(* C18: the trace id a feedback score is recorded against is a function of
   the session id alone: two log_feedback calls with the same session id
   score the same trace, whatever the user, the message and the comment. *)
C18_TraceOfSession ==
    \A a, b \in scored :
        a.of.session_id = b.of.session_id => a.trace_id = b.trace_id

C18_Witness ==
    \E a, b \in scored :
        /\ a.of.session_id = b.of.session_id
        /\ a.of.user_id # b.of.user_id
        /\ a.feedback_for # b.feedback_for
        /\ a.comment # b.comment
        /\ a.trace_id = b.trace_id

(* the non-empty message contents of the chunks that have a messages entry *)
RECURSIVE ContentsOfChunks(_)
ContentsOfChunks(cs) ==
    IF Len(cs) = 0 THEN <<>>
    ELSE (IF Head(cs).has_messages
          THEN LET ms == Head(cs).messages
                   keep == SelectSeq(ms, LAMBDA m : m.content # "" /\ m.content # None)
               IN  [i \in 1..Len(keep) |-> keep[i].content]
          ELSE <<>>)
         \o ContentsOfChunks(Tail(cs))

(* C19: stream_response of either adapter yields, in emission order, exactly
   the non-empty content of every message of every emitted chunk that has a
   messages entry, and it ends when the underlying stream ends: it never
   stops with an error of its own. *)
C19_StreamYieldsContents ==
    /\ stream_pc # "TypeError"
    /\ stream_pc = "streaming" => yielded = ContentsOfChunks(SubSeq(chunks, 1, cursor))
    /\ stream_pc = "ended" => (cursor = Len(chunks) /\ yielded = ContentsOfChunks(chunks))

(* C20: a GET of a conversation id that is not in the store is answered 404;
   the request reads the repository once and does nothing else: no write, no
   agent, guardrail or telemetry call. *)
C20_GetUnknownIs404 ==
    \A r \in Reqs :
        (Done(r) /\ req[r].handler = "get_conversation" /\ ~Stored(req[r].conversation_id)) =>
            /\ http[r] = 404
            /\ body[r] = NoBody
            /\ [i \in 1..Len(log[r]) |-> log[r][i].op] = <<"get_by_id">>

C20_Witness ==
    \E r \in Reqs :
        /\ Done(r) /\ req[r].handler = "get_conversation"
        /\ req[r].conversation_id = UnknownId
        /\ http[r] = 404

IsPrefix(a, b) == Len(a) <= Len(b) /\ SubSeq(b, 1, Len(a)) = a
(* the collaborator calls of send_message the request has made, in order *)
Steps(r) ==
    LET calls == SelectSeq(log[r], LAMBDA e : e.op \in CollaboratorCalls)
    IN  [i \in 1..Len(calls) |-> calls[i].op]
StepOrder ==
    IF guardrail_service
    THEN <<"get_by_id", "check_input", "process_request", "check_output", "save">>
    ELSE <<"get_by_id", "process_request", "save">>

(* C21: in a send_message execution that the input check does not
   short-circuit, the steps occur in the order read, input check, append of
   the user message, agent call, output check, append of the assistant
   message, save: the calls made so far are always a prefix of that order, the
   user message is appended only once the input check has returned, and the
   assistant message only once the output check has returned. *)
C21_StepOrder ==
    \A r \in Reqs :
        ~InputBlocked(r) =>
            /\ IsPrefix(Steps(r), StepOrder)
            /\ pc[r] = "check_input" => conversation[r] = snapshot[r]
            /\ pc[r] \in {"agent", "check_output"} =>
                  conversation[r].messages =
                      snapshot[r].messages \o <<create_user_message(req[r].prompt)>>
            /\ pc[r] = "save" =>
                  /\ Len(conversation[r].messages) = Len(snapshot[r].messages) + 2
                  /\ Last(conversation[r].messages).role = "assistant"

C21_Witness ==
    \E r \in Reqs :
        /\ Returned(r) /\ guardrail_service /\ ~InputBlocked(r)
        /\ Steps(r) = StepOrder

AgentCalls(r) == {i \in 1..Len(log[r]) : log[r][i].op = "process_request"}

(* C22: the message list send_message hands to the agent is the
   conversation's complete prior history followed by the new user message as
   its last element, and the adapter's conversion to framework messages keeps
   the length, the order, each content and each role (user to HumanMessage,
   assistant to AIMessage). *)
C22_AgentGetsHistoryThenPrompt ==
    \A r \in Reqs : \A i \in AgentCalls(r) :
        LET messages == log[r][i].arg
            lc == lc_messages(messages)
        IN  /\ messages = snapshot[r].messages \o <<create_user_message(req[r].prompt)>>
            /\ Len(lc) = Len(messages)
            /\ \A j \in 1..Len(messages) :
                  /\ lc[j].content = messages[j].content
                  /\ messages[j].role = "user" => lc[j].type = "HumanMessage"
                  /\ messages[j].role = "assistant" => lc[j].type = "AIMessage"
                  /\ messages[j].role \in {"user", "assistant"}

C22_Witness ==
    \E r \in Reqs : \E i \in AgentCalls(r) :
        /\ Len(log[r][i].arg) = 3
        /\ log[r][i].arg[2].role = "assistant"
        /\ lc_messages(log[r][i].arg)[2].type = "AIMessage"

Malformed(msg) == msg.type = "ToolMessage" /\ msg.content \in MalformedPayloads
Remove(s, i) == SubSeq(s, 1, i - 1) \o SubSeq(s, i + 1, Len(s))
Harvested == harvested # NotHarvested

(* C23: a tool-output message whose payload is no valid JSON, or JSON of an
   unexpected shape, never makes the harvest fail, and the tool names, the
   citations and the knowledge-base id are what they are without that
   message. *)
C23_MalformedPayloadIgnored ==
    Harvested =>
        /\ harvested.harvest.err = "none"
        /\ \A i \in 1..Len(transcript) :
              Malformed(transcript[i]) =>
                 LET others == Remove(transcript, i)
                     rest == harvest(others, Harvest(<<>>, None))
                 IN  /\ rest.citations = harvested.harvest.citations
                     /\ rest.knowledge_base_id = harvested.harvest.knowledge_base_id
                     /\ Range(tool_call_names(others)) = Range(tool_call_names(transcript))

(* the citations lists of the parseable tool payloads, in transcript order *)
RECURSIVE CitationLists(_)
CitationLists(msgs) ==
    IF Len(msgs) = 0 THEN <<>>
    ELSE (IF Head(msgs).type = "ToolMessage"
             /\ json_loads(Head(msgs).content).kind = "object"
             /\ json_loads(Head(msgs).content).citations.type = "list"
          THEN json_loads(Head(msgs).content).citations.items ELSE <<>>)
         \o CitationLists(Tail(msgs))
(* the tool messages whose payload carries a knowledge-base id *)
CarriesId(msgs) ==
    {i \in 1..Len(msgs) :
        /\ msgs[i].type = "ToolMessage"
        /\ json_loads(msgs[i].content).kind = "object"
        /\ json_loads(msgs[i].content).knowledge_base_id.type = "string"}
LastId(msgs) ==
    LET i == CHOOSE k \in CarriesId(msgs) : \A j \in CarriesId(msgs) : j <= k
    IN  json_loads(msgs[i].content).knowledge_base_id.text
Metadata(response, key) == {p[2] : p \in {q \in response.metadata : q[1] = key}}

(* C24: the cx_agent_backend adapter answers a transcript it does not block
   with a response whose metadata citations is the concatenation, in
   transcript order, of the citations lists of the parseable tool payloads
   (no key when there is none), and whose metadata knowledge_base_id is the id
   of the last payload that carries one (no key when none does). *)
C24_CitationsInMetadata ==
    Harvested =>
        /\ harvested.response.err = "none"
        /\ Metadata(harvested.response, "citations") =
              IF CitationLists(transcript) = <<>> THEN {}
              ELSE {Join(CitationLists(transcript))}
        /\ Metadata(harvested.response, "knowledge_base_id") =
              IF CarriesId(transcript) = {} THEN {} ELSE {LastId(transcript)}

(* C25: send_message is append-only on the persisted conversation: with the
   calls made one after the other, every step leaves each stored message list
   a prefix of the list stored after it, so no stored message is ever removed,
   reordered or altered. *)
C25_AppendOnly ==
    [][\A id \in DOMAIN store :
          /\ id \in DOMAIN store'
          /\ IsPrefix(store[id].messages, store'[id].messages)]_vars

C25_Witness ==
    \E r \in Reqs :
        /\ Returned(r)
        /\ Len(snapshot[r].messages) = 2
        /\ Len(Persisted(r)) = 4
        /\ Persisted(r)[2] # Persisted(r)[4]

Alternates(messages) ==
    /\ Len(messages) % 2 = 0
    /\ \A i \in 1..Len(messages) :
          messages[i].role = IF i % 2 = 1 THEN "user" ELSE "assistant"

(* C26: after any sequence of send_message calls made one after the other on
   conversations that start empty, whatever the guardrails answer and whether
   the calls complete or fail, every persisted message list has even length
   and alternates user, assistant: no user message is persisted without the
   assistant message of its turn. *)
C26_TurnsAlternate ==
    \A id \in DOMAIN store : Alternates(store[id].messages)

C26_Witness ==
    \E r \in Reqs :
        /\ Done(r) /\ error[r][2] \in {"process_request", "check_output"}
        /\ Stored(req[r].conversation_id)
        /\ Len(Persisted(r)) = 2
        /\ Len(conversation[r].messages) = 3

(* C27: when the agent or the output check fails during send_message, save is
   not called in that request: the persisted conversation is the one the
   request read, without the new user message. *)
C27_FailureSavesNothing ==
    \A r \in Reqs :
        error[r][2] \in {"process_request", "check_output"} =>
            /\ Count(r, "save") = 0
            /\ store[req[r].conversation_id] = snapshot[r]
            /\ Len(conversation[r].messages) = Len(snapshot[r].messages) + 1

C27_Witness ==
    \E r \in Reqs :
        /\ Done(r) /\ error[r][2] = "check_output"
        /\ Len(snapshot[r].messages) = 2
        /\ Last(conversation[r].messages) = create_user_message(req[r].prompt)

FeedbackAndPrompt(r) ==
    /\ req[r].handler \in {"router", "server"}
    /\ req[r].feedback.given /\ ~Falsy(req[r].prompt)
    /\ req[r].conversation_id # MalformedId
Positions(r, ops) == {i \in 1..Len(log[r]) : log[r][i].op \in ops}

(* C28: when an /invocations request carries both feedback and a prompt,
   log_feedback, its sink call included, is over before send_message starts,
   and a failure of the telemetry sink does not keep the prompt from being
   processed: the request goes on into send_message and any failure it ends
   with comes from send_message. *)
C28_FeedbackThenPrompt ==
    \A r \in Reqs :
        FeedbackAndPrompt(r) =>
            /\ \A i \in Positions(r, {"log_feedback"} \cup SinkOps) :
                  \A j \in Positions(r, PipelineOps) : i < j
            /\ Positions(r, PipelineOps) # {} => Count(r, "log_feedback") = 1
            /\ error[r][2] \in {"none"} \cup CollaboratorCalls
            /\ Done(r) => "get_by_id" \in Ops(r)

C28_Witness ==
    \E r \in Reqs :
        /\ FeedbackAndPrompt(r) /\ Returned(r)
        /\ Ops(r) \cap {"score_trace_failed", "get_client_failed"} # {}
        /\ body[r].message \in {"raw", "blocked"}

AssistantMessages == {k \in 1..Len(chat) : chat[k].role = "assistant"}
(* the script has rendered the displayed messages at least once *)
Rendered(k) == message_id_of(chat[k]) \in DOMAIN session_state
FeedbackGiven(k) == Rendered(k) /\ session_state[message_id_of(chat[k])]
SubmissionsFor(k) == {s \in submissions : s.run_id = message_id_of(chat[k])}
Succeeded(k) == \E s \in SubmissionsFor(k) : s.ok

(* C29: the feedback-given flag of an assistant message, kept under the
   message's id, is False when first rendered and is True exactly when a
   submit_feedback call for that id has returned True: it is never set by a
   failed call and never reset after a successful one, and the feedback
   controls are offered exactly while the flag is False. *)
C29_FeedbackFlag ==
    \A k \in AssistantMessages :
        /\ ~Rendered(k) => SubmissionsFor(k) = {}
        /\ FeedbackGiven(k) <=> Succeeded(k)
        /\ message_id_of(chat[k]) \in controls => ~FeedbackGiven(k) /\ ~Succeeded(k)
        /\ (Rendered(k) /\ ~FeedbackGiven(k)) => message_id_of(chat[k]) \in controls
        /\ message_id_of(chat[k]) \in forms => message_id_of(chat[k]) \in controls

C29_Witness ==
    \E k, j \in AssistantMessages :
        /\ FeedbackGiven(k) /\ message_id_of(chat[k]) \notin controls
        /\ \E s \in SubmissionsFor(k) : ~s.ok
        /\ SubmissionsFor(j) # {} /\ ~Succeeded(j) /\ message_id_of(chat[j]) \in controls

====
